---- MODULE Spec2Model ----
(***************************************************************************)
(* Gamification evaluation of the ClubDev backend                          *)
(* (app/services/gamification_service.py).                                 *)
(*                                                                         *)
(* The database is a set of tables, each a bag of rows.  An ORM statement  *)
(* is modelled by the relational operation it denotes: a count or a sum    *)
(* over the rows its WHERE clause selects, taken over the product of the   *)
(* tables the statement names.  Every statement may also raise, which the  *)
(* service turns into DatabaseError.  Session.commit() makes the pending   *)
(* rows and attribute changes durable, or raises and persists nothing.     *)
(* Several calls of check_and_award_trophies_and_challenges run in their   *)
(* own sessions; the steps of different calls interleave between           *)
(* statements.                                                             *)
(***************************************************************************)
EXTENDS Integers, Sequences, FiniteSets, Bags, TLC

\* ------------------------------------------------------------------ bounds
MaxRows == 3        \* rows in the metric source tables, all tables together
MaxCalls == 2       \* calls of check_and_award_trophies_and_challenges
MaxDay == 1         \* days on the clock: 0 .. MaxDay
TicksPerDay == 2    \* distinguishable times of day
MaxOps == 3         \* direct award, update and delete operations
MaxCount == 5       \* largest metric value given to the trophy rules
MaxAssignments == 2 \* ProjectRoleAssignment rows

\* --------------------------------------------------------------- constants
Users == {"u1", "u2"}
\* The users who are active and evaluated; the others only write blog posts.
Evaluated == {"u1"}
\* Request sessions (get_db yields one Session per request); each makes
\* its evaluation calls one after the other.
Calls == {"s1", "s2"}

\* SQL NULL / Python None as the result of SUM over no rows.
None == -1

\* core/config.py loads the thresholds from thresholds.json, which is not
\* part of the sources; the model fixes small values.
thresholds ==
  [ ROOKIE_CONTRIBUTOR_THRESHOLD |-> 2,
    SYNTAX_SORCERER_THRESHOLD |-> 1,
    CROSS_LANGUAGE_WIZARD_THRESHOLD |-> 2,
    POPULAR_CREATOR_THRESHOLD |-> 2,
    MASTERMIND_THRESHOLD |-> 2,
    REVIEWER_THRESHOLD |-> 2,
    BUG_HUNTER_THRESHOLD |-> 1,
    HELPER_THRESHOLD |-> 1,
    BLOG_WRITER_THRESHOLD |-> 1,
    POPULAR_BLOGGER_THRESHOLD |-> 2,
    PROLIFIC_BLOGGER_THRESHOLD |-> 2,
    BLOG_INFLUENCER_THRESHOLD |-> 3,
    BRONZE_THRESHOLD |-> 3,
    SILVER_THRESHOLD |-> 4,
    GOLD_THRESHOLD |-> 5,
    POLYMATH_THRESHOLD |-> 2,
    INNOVATOR_THRESHOLD |-> 1,
    TRAILBLAZER_THRESHOLD |-> 1,
    COLLABORATOR_THRESHOLD |-> 1,
    DAILY_UPLOAD_THRESHOLD |-> 1,
    WEEKLY_UPVOTER_THRESHOLD |-> 1,
    PROLIFIC_BLOGGER_MONTH_THRESHOLD |-> 2,
    BLOG_INFLUENCER_MONTH_THRESHOLD |-> 2 ]

\* ------------------------------------------------------------------- clock
\* An instant is day * TicksPerDay + time of day.  Day 0 is a Sunday and the
\* 31st of its month, so day 1 is a Monday and the first day of the next
\* month.
Calendar == [weekday |-> 6, day_of_month |-> 31, month_length |-> 31]

DayOf(t) == t \div TicksPerDay
TimeOfDay(t) == t % TicksPerDay
MaxTime == (MaxDay + 1) * TicksPerDay - 1

\* datetime.weekday(): Monday is 0.
Weekday(d) == (d + Calendar.weekday) % 7
\* datetime.day, 1-based.
DayOfMonth(d) == ((d + Calendar.day_of_month - 1) % Calendar.month_length) + 1
\* date_trunc('month', x): the day the month of d starts on.
MonthStart(d) == d - (DayOfMonth(d) - 1)
\* date_trunc('week', x): the Monday of d's week.
WeekStart(d) == d - Weekday(d)

VARIABLES
  now,            \* the wall clock
  scripts,        \* Script rows, a bag
  likes,          \* Like rows, a bag
  flags,          \* Flag rows, a bag
  help_answers,   \* HelpAnswer rows, a bag
  blog_posts,     \* BlogPost rows, a bag
  trophies,       \* Trophy rows, a bag of [name, user_id]
  challenges,     \* Challenge rows, a bag of [name, user_id, reward]
  user,           \* User rows: user[u].trophies_count, .challenges_count
  pc,             \* position of the evaluation call of each session
  call,           \* locals of each call, and what it has done so far
  calls_made,     \* number of evaluation calls made so far
  settled,        \* settled[u]: u was evaluated and nothing happened since
  user_badges,    \* UserBadge rows, a bag of [user_id, badge_id]
  user_achievements,  \* UserAchievement rows, a bag
  reply,          \* what the last direct service operation handed back
  ops_made,       \* number of writing direct operations made so far
  pending,        \* rows added to the service's session, not yet committed
  cache,          \* trophies the service instance's get_trophy has cached
  rule_probe,     \* metric values and the trophy names the rules give them
  role_assignments,  \* ProjectRoleAssignment rows, a set
  role_permissions,  \* ProjectRolePermission rows, a set
  project_reply   \* what the last project operation handed back

vars == <<now, scripts, likes, flags, help_answers, blog_posts, trophies,
          challenges, user, pc, call, calls_made, settled, user_badges,
          user_achievements, reply, ops_made, pending, cache, rule_probe,
          role_assignments, role_permissions, project_reply>>

\* What only the direct award operations touch.
ledger ==
  <<user_badges, user_achievements, reply, ops_made, pending, cache>>

\* What the evaluation and the award operations never touch.
aside == <<rule_probe, role_assignments, role_permissions, project_reply>>

sources == <<scripts, likes, flags, help_answers, blog_posts>>
awards == <<trophies, challenges, user>>

\* ----------------------------------------------------------------- helpers
RECURSIVE BagCount(_, _)
\* Number of rows of bag B among the row values in S.
BagCount(B, S) ==
  IF S = {} THEN 0
  ELSE LET r == CHOOSE x \in S : TRUE
       IN  B[r] + BagCount(B, S \ {r})

RECURSIVE BagSum(_, _, _)
\* Sum of column col over the rows of bag B among the row values in S.
BagSum(B, S, col) ==
  IF S = {} THEN 0
  ELSE LET r == CHOOSE x \in S : TRUE
       IN  B[r] * r[col] + BagSum(B, S \ {r}, col)

AddRow(B, r) == B (+) SetToBag({r})

RECURSIVE AddRows(_, _)
\* Session.add_all(rows) followed by a successful commit.
AddRows(B, rows) ==
  IF rows = <<>> THEN B ELSE AddRows(AddRow(B, Head(rows)), Tail(rows))

SourceRows ==
  BagCardinality(scripts) + BagCardinality(likes) + BagCardinality(flags)
    + BagCardinality(help_answers) + BagCardinality(blog_posts)

Running(c) ==
  pc[c] \in {"aggregate", "rules", "windowed", "apply", "lookup", "counters"}
Finished(c) == pc[c] \in {"done", "failed"}

\* ------------------------------------------------------- metric aggregator
\* Rows of table B whose owner column equals u (WHERE model.author_id == u).
OwnedBy(B, owner, u) == {r \in DOMAIN B : r[owner] = u}

\* _get_count(model, user_id, filter_condition) on one table.
\* filter_condition is given as the set of rows that satisfy it.
get_count(B, owner, u, filter_condition) ==
  BagCount(B, OwnedBy(B, owner, u) \cap filter_condition)

\* _get_count(model, user_id, filter_condition) where the filter names a
\* column of another table J: the statement selects from the product of
\* both tables, and count(model.id) counts the pairs.
get_count_joined(B, owner, u, J, filter_condition) ==
  get_count(B, owner, u, DOMAIN B)
    * BagCount(J, DOMAIN J \cap filter_condition)

\* _get_sum(model, user_id, column): SUM over no rows is NULL.
get_sum(B, owner, u, col) ==
  IF OwnedBy(B, owner, u) = {} THEN None
  ELSE BagSum(B, OwnedBy(B, owner, u), col)

\* select count(distinct Script.language) where Script.author_id == u
cross_language_count(u) ==
  Cardinality({r.language : r \in OwnedBy(scripts, "author_id", u)})

\* Lines 108-120: the metrics read before the first rule.
Snapshot(u) ==
  [ script_count |-> get_count(scripts, "author_id", u, DOMAIN scripts),
    syntax_sorcerer_count |->
      get_count(scripts, "author_id", u,
                {r \in DOMAIN scripts : r.is_syntax_sorcerer}),
    innovator_count |->
      get_count(scripts, "author_id", u,
                {r \in DOMAIN scripts : r.is_innovative}),
    trailblazer_count |->
      get_count(scripts, "author_id", u,
                {r \in DOMAIN scripts : r.is_trailblazing}),
    collaborator_count |->
      get_count(scripts, "author_id", u,
                {r \in DOMAIN scripts : r.is_collaborative}),
    like_count_on_scripts |->
      get_count_joined(likes, "user_id", u, scripts,
                       {j \in DOMAIN scripts : j.author_id = u}),
    view_sum |-> get_sum(scripts, "author_id", u, "views"),
    flag_count |-> get_count(flags, "flagger_id", u, DOMAIN flags),
    help_answer_count |->
      get_count(help_answers, "responder_id", u, DOMAIN help_answers),
    blog_post_count |->
      get_count(blog_posts, "author_id", u, DOMAIN blog_posts),
    like_count_on_posts |->
      get_count_joined(likes, "user_id", u, blog_posts,
                       {j \in DOMAIN blog_posts : j.author_id = u}),
    cross_language_count |-> cross_language_count(u) ]

EmptySnapshot ==
  [ script_count |-> 0, syntax_sorcerer_count |-> 0, innovator_count |-> 0,
    trailblazer_count |-> 0, collaborator_count |-> 0,
    like_count_on_scripts |-> 0, view_sum |-> None, flag_count |-> 0,
    help_answer_count |-> 0, blog_post_count |-> 0, like_count_on_posts |-> 0,
    cross_language_count |-> 0 ]

\* is_trending_script_of_the_week without the filter on the author.
is_trending_script_of_anyone(u, t) ==
  LET start_of_week == t - Weekday(DayOf(t)) * TicksPerDay
      end_of_week == start_of_week + 6 * TicksPerDay
  IN  \E r \in DOMAIN scripts :
        r.created_at >= start_of_week /\ r.created_at <= end_of_week

\* is_trending_script_of_the_week (lines 224-237) at time t.
is_trending_script_of_the_week(u, t) ==
  LET start_of_week == t - Weekday(DayOf(t)) * TicksPerDay
      end_of_week == start_of_week + 6 * TicksPerDay
  IN  \E r \in OwnedBy(scripts, "author_id", u) :
        r.created_at >= start_of_week /\ r.created_at <= end_of_week

\* is_top_coder_of_the_month (lines 239-252) at time t.
is_top_coder_of_the_month(u, t) ==
  LET start_of_month == MonthStart(DayOf(t)) * TicksPerDay + TimeOfDay(t)
      end_of_month ==
        (MonthStart(DayOf(t)) + Calendar.month_length - 1) * TicksPerDay
          + TimeOfDay(t)
  IN  \E r \in OwnedBy(scripts, "author_id", u) :
        r.created_at >= start_of_month /\ r.created_at <= end_of_month

\* ------------------------------------------------------------- rule set
When(cond, outcome) == IF cond THEN <<outcome>> ELSE <<>>

\* TrophiesToAward with an exclusive comparison in the first rule.
TrophiesToAwardStrict(s, reviewer, trending, top_coder) ==
     When(s.script_count > thresholds.ROOKIE_CONTRIBUTOR_THRESHOLD,
          "Rookie Contributor")
  \o When(s.syntax_sorcerer_count >= thresholds.SYNTAX_SORCERER_THRESHOLD,
          "Syntax Sorcerer")
  \o When(s.cross_language_count >= thresholds.CROSS_LANGUAGE_WIZARD_THRESHOLD,
          "Cross-Language Wizard")
  \o When(s.like_count_on_scripts >= thresholds.POPULAR_CREATOR_THRESHOLD,
          "Popular Creator")
  \o When(s.view_sum >= thresholds.MASTERMIND_THRESHOLD, "Mastermind")
  \o When(reviewer >= thresholds.REVIEWER_THRESHOLD, "Reviewer")
  \o When(trending, "Trendsetter")
  \o When(s.flag_count >= thresholds.BUG_HUNTER_THRESHOLD, "Bug Hunter")
  \o When(s.help_answer_count >= thresholds.HELPER_THRESHOLD, "Helper")
  \o When(top_coder, "Top Coder")
  \o When(s.blog_post_count >= thresholds.BLOG_WRITER_THRESHOLD, "Blog Writer")
  \o When(s.like_count_on_posts >= thresholds.POPULAR_BLOGGER_THRESHOLD,
          "Popular Blogger")
  \o When(s.blog_post_count >= thresholds.PROLIFIC_BLOGGER_THRESHOLD,
          "Prolific Blogger")
  \o When(s.like_count_on_posts >= thresholds.BLOG_INFLUENCER_THRESHOLD,
          "Blog Influencer")
  \o When(s.script_count >= thresholds.BRONZE_THRESHOLD, "Bronze Trophy")
  \o When(s.script_count >= thresholds.SILVER_THRESHOLD, "Silver Trophy")
  \o When(s.script_count >= thresholds.GOLD_THRESHOLD, "Gold Trophy")
  \o When(s.syntax_sorcerer_count >= thresholds.POLYMATH_THRESHOLD,
          "Polymath Trophy")
  \o When(s.innovator_count >= thresholds.INNOVATOR_THRESHOLD,
          "Innovator Trophy")
  \o When(s.trailblazer_count >= thresholds.TRAILBLAZER_THRESHOLD,
          "Trailblazer Trophy")
  \o When(s.collaborator_count >= thresholds.COLLABORATOR_THRESHOLD,
          "Collaborator Trophy")

\* The tiered trophies with each tier given only up to the next threshold.
TieredTrophiesHighestOnly(s) ==
     When(/\ s.script_count >= thresholds.BRONZE_THRESHOLD
          /\ s.script_count < thresholds.SILVER_THRESHOLD, "Bronze Trophy")
  \o When(/\ s.script_count >= thresholds.SILVER_THRESHOLD
          /\ s.script_count < thresholds.GOLD_THRESHOLD, "Silver Trophy")
  \o When(s.script_count >= thresholds.GOLD_THRESHOLD, "Gold Trophy")

\* The tiered script trophies, lines 156-161.
TieredTrophies(s) ==
     When(s.script_count >= thresholds.BRONZE_THRESHOLD, "Bronze Trophy")
  \o When(s.script_count >= thresholds.SILVER_THRESHOLD, "Silver Trophy")
  \o When(s.script_count >= thresholds.GOLD_THRESHOLD, "Gold Trophy")

\* Lines 128-169: the trophy rules, in the order of the code.  reviewer is
\* the count read at line 138, trending and top_coder the predicates called
\* at lines 140 and 146.
TrophiesToAward(s, reviewer, trending, top_coder) ==
     When(s.script_count >= thresholds.ROOKIE_CONTRIBUTOR_THRESHOLD,
          "Rookie Contributor")
  \o When(s.syntax_sorcerer_count >= thresholds.SYNTAX_SORCERER_THRESHOLD,
          "Syntax Sorcerer")
  \o When(s.cross_language_count >= thresholds.CROSS_LANGUAGE_WIZARD_THRESHOLD,
          "Cross-Language Wizard")
  \o When(s.like_count_on_scripts >= thresholds.POPULAR_CREATOR_THRESHOLD,
          "Popular Creator")
  \o When(s.view_sum >= thresholds.MASTERMIND_THRESHOLD, "Mastermind")
  \o When(reviewer >= thresholds.REVIEWER_THRESHOLD, "Reviewer")
  \o When(trending, "Trendsetter")
  \o When(s.flag_count >= thresholds.BUG_HUNTER_THRESHOLD, "Bug Hunter")
  \o When(s.help_answer_count >= thresholds.HELPER_THRESHOLD, "Helper")
  \o When(top_coder, "Top Coder")
  \o When(s.blog_post_count >= thresholds.BLOG_WRITER_THRESHOLD, "Blog Writer")
  \o When(s.like_count_on_posts >= thresholds.POPULAR_BLOGGER_THRESHOLD,
          "Popular Blogger")
  \o When(s.blog_post_count >= thresholds.PROLIFIC_BLOGGER_THRESHOLD,
          "Prolific Blogger")
  \o When(s.like_count_on_posts >= thresholds.BLOG_INFLUENCER_THRESHOLD,
          "Blog Influencer")
  \o TieredTrophies(s)
  \o When(s.syntax_sorcerer_count >= thresholds.POLYMATH_THRESHOLD,
          "Polymath Trophy")
  \o When(s.innovator_count >= thresholds.INNOVATOR_THRESHOLD,
          "Innovator Trophy")
  \o When(s.trailblazer_count >= thresholds.TRAILBLAZER_THRESHOLD,
          "Trailblazer Trophy")
  \o When(s.collaborator_count >= thresholds.COLLABORATOR_THRESHOLD,
          "Collaborator Trophy")

InWeek(t, t0) == WeekStart(DayOf(t)) = WeekStart(DayOf(t0))
InMonth(t, t0) == MonthStart(DayOf(t)) = MonthStart(DayOf(t0))

\* Lines 171-186: the windowed metrics at time t.
Windowed(u, t) ==
  [ daily_upload_count |->
      get_count(scripts, "author_id", u,
                {r \in DOMAIN scripts : DayOf(r.created_at) = DayOf(t)}),
    weekly_upvoter_count |->
      get_count_joined(likes, "user_id", u, scripts,
                       {j \in DOMAIN scripts : InWeek(j.created_at, t)}),
    pythonista_count |->
      get_count(scripts, "author_id", u,
                {r \in DOMAIN scripts : /\ r.language = "Python"
                                         /\ InWeek(r.created_at, t)}),
    blog_post_week_count |->
      get_count(blog_posts, "author_id", u,
                {r \in DOMAIN blog_posts : InWeek(r.created_at, t)}),
    blog_post_month_count |->
      get_count(blog_posts, "author_id", u,
                {r \in DOMAIN blog_posts : InMonth(r.created_at, t)}),
    like_count_on_posts |->
      get_count_joined(likes, "user_id", u, blog_posts,
                       {j \in DOMAIN blog_posts : InMonth(j.created_at, t)}) ]

\* ChallengesToAward with the Pythonista rule moved to the front.
ChallengesToAwardReordered(w) ==
     When(w.pythonista_count >= 1, <<"Pythonista", "Pythonista badge">>)
  \o When(w.daily_upload_count >= thresholds.DAILY_UPLOAD_THRESHOLD,
          <<"Daily Upload", "100 bonus XP">>)
  \o When(w.weekly_upvoter_count >= thresholds.WEEKLY_UPVOTER_THRESHOLD,
          <<"Weekly Upvoter", "Reviewer badge">>)
  \o When(w.blog_post_week_count >= 1, <<"Blogger", "Blogger badge">>)
  \o When(w.blog_post_month_count
            >= thresholds.PROLIFIC_BLOGGER_MONTH_THRESHOLD,
          <<"Prolific Blogger", "Prolific Blogger badge">>)
  \o When(w.like_count_on_posts >= thresholds.BLOG_INFLUENCER_MONTH_THRESHOLD,
          <<"Blog Influencer", "Blog Influencer badge">>)

\* Lines 188-199: the challenge rules, in the order of the code.
ChallengesToAward(w) ==
     When(w.daily_upload_count >= thresholds.DAILY_UPLOAD_THRESHOLD,
          <<"Daily Upload", "100 bonus XP">>)
  \o When(w.weekly_upvoter_count >= thresholds.WEEKLY_UPVOTER_THRESHOLD,
          <<"Weekly Upvoter", "Reviewer badge">>)
  \o When(w.pythonista_count >= 1, <<"Pythonista", "Pythonista badge">>)
  \o When(w.blog_post_week_count >= 1, <<"Blogger", "Blogger badge">>)
  \o When(w.blog_post_month_count
            >= thresholds.PROLIFIC_BLOGGER_MONTH_THRESHOLD,
          <<"Prolific Blogger", "Prolific Blogger badge">>)
  \o When(w.like_count_on_posts >= thresholds.BLOG_INFLUENCER_MONTH_THRESHOLD,
          <<"Blog Influencer", "Blog Influencer badge">>)

\* TrophyRows with the rows given to another user.
TrophyRowsMisassigned(u, names) ==
  [i \in 1 .. Len(names) |->
     [name |-> names[i], user_id |-> CHOOSE v \in Users : v # u]]

\* Line 202: the Trophy objects of one evaluation.
TrophyRows(u, names) ==
  [i \in 1 .. Len(names) |-> [name |-> names[i], user_id |-> u]]
\* Line 203: the Challenge objects of one evaluation.
ChallengeRows(u, pairs) ==
  [i \in 1 .. Len(pairs) |->
     [name |-> pairs[i][1], user_id |-> u, reward |-> pairs[i][2]]]

\* ------------------------------------------------------------ initial state
ZeroCounts ==
  [ trophies_count |-> 0, challenges_count |-> 0, user_badges_count |-> 0,
    user_achievements_count |-> 0 ]

EmptyWindowed ==
  [ daily_upload_count |-> 0, weekly_upvoter_count |-> 0,
    pythonista_count |-> 0, blog_post_week_count |-> 0,
    blog_post_month_count |-> 0, like_count_on_posts |-> 0 ]

\* What a call hands to its caller: the returned value or the exception.
Pending == [kind |-> "pending", value |-> <<>>]
ReturnsNone == [kind |-> "None", value |-> <<>>]
RaisesDatabaseError == [kind |-> "DatabaseError", value |-> <<>>]

\* A session that is not in a call.  The fields after loaded record what the
\* call has done, for the properties below.
IdleCall ==
  [ user_id |-> "u1",
    snapshot |-> EmptySnapshot,
    trophies_to_award |-> <<>>,
    challenges_to_award |-> <<>>,
    reviewer |-> 0,               \* the count read at line 138
    windowed |-> EmptyWindowed,   \* the metrics read at lines 171-186
    loaded |-> ZeroCounts,        \* the User object read at line 212
    committed |-> FALSE,          \* the commit at line 205 succeeded
    commits |-> 0,                \* successful Session.commit() calls
    new_trophies |-> <<>>,        \* satisfied trophies not recorded at line 204
    new_challenges |-> <<>>,      \* satisfied challenges not recorded there
    counted |-> ZeroCounts,       \* what the call has added to the counters
    fresh |-> FALSE,              \* the user had no award when the call began
    repeat |-> FALSE,             \* the call began right after a completed one
    clean |-> FALSE,              \* no call of the same user has overlapped
    even |-> FALSE,               \* trophies_count matched the Trophy rows
                                  \* when the call, or the call it overlaps,
                                  \* began
    peer_done |-> FALSE,          \* an overlapping call of the user completed
    faulted |-> FALSE,            \* a database statement of the call raised
    failed_at |-> "idle",         \* the position at which the call raised
    ret |-> Pending ]             \* what the caller receives

\* The award rows a call has made durable.
granted_trophies(c) ==
  IF call[c].committed THEN call[c].trophies_to_award ELSE <<>>
granted_challenges(c) ==
  IF call[c].committed THEN call[c].challenges_to_award ELSE <<>>

\* What a direct service operation hands back: kind is "ok" or the class of
\* the exception raised; missing tells whether the item looked up existed.
NoReply == [op |-> "none", kind |-> "ok", missing |-> FALSE]
Reply(op, kind, missing) == [op |-> op, kind |-> kind, missing |-> missing]

\* A session to which no row has been added.
NoPending == [user_badges |-> EmptyBag, user_achievements |-> EmptyBag]

\* The tables and the calls before anything has happened.
InitTables ==
  /\ now = 0
  /\ scripts = EmptyBag
  /\ likes = EmptyBag
  /\ flags = EmptyBag
  /\ help_answers = EmptyBag
  /\ blog_posts = EmptyBag
  /\ trophies = EmptyBag
  /\ challenges = EmptyBag
  /\ user = [u \in Users |-> ZeroCounts]
  /\ pc = [c \in Calls |-> "idle"]
  /\ call = [c \in Calls |-> IdleCall]
  /\ calls_made = 0
  /\ settled = [u \in Users |-> FALSE]
  /\ user_badges = EmptyBag
  /\ user_achievements = EmptyBag
  /\ reply = NoReply
  /\ ops_made = 0
  /\ pending = NoPending
  /\ cache = {}

\* Metric values to which the trophy rules have not been applied yet.
Unapplied(s) == [snapshot |-> s, satisfied |-> <<>>, applied |-> FALSE]

NoProjectReply ==
  [op |-> "none", user_id |-> "none", project_id |-> "none",
   permission_name |-> "none", granted |-> FALSE]

Init ==
  /\ InitTables
  /\ rule_probe = Unapplied(EmptySnapshot)
  /\ role_assignments = {}
  /\ role_permissions = {}
  /\ project_reply = NoProjectReply

\* A finished call hands its outcome to the caller before anything else
\* happens.
NoneFinished == \A c \in Calls : ~Finished(c)

\* Activity requests and clock ticks are taken between evaluation calls.
Quiet == \A c \in Calls : pc[c] = "idle"

\* ---------------------------------------------------------------- activity
\* An activity or the passing of time ends every "nothing happened since".
Disturbed ==
  /\ settled' = [u \in Users |-> FALSE]
  /\ UNCHANGED call

ScriptInputs ==
  { [language |-> "Python", views |-> 2, is_syntax_sorcerer |-> TRUE,
     is_innovative |-> TRUE, is_trailblazing |-> TRUE,
     is_collaborative |-> TRUE],
    [language |-> "Go", views |-> 0, is_syntax_sorcerer |-> FALSE,
     is_innovative |-> FALSE, is_trailblazing |-> FALSE,
     is_collaborative |-> FALSE] }

\* ContentService.create_script
CreateScript(u, in) ==
  /\ Quiet
  /\ SourceRows < MaxRows
  /\ scripts' = AddRow(scripts,
       [author_id |-> u, created_at |-> now, language |-> in.language,
        views |-> in.views, is_syntax_sorcerer |-> in.is_syntax_sorcerer,
        is_innovative |-> in.is_innovative,
        is_trailblazing |-> in.is_trailblazing,
        is_collaborative |-> in.is_collaborative])
  /\ Disturbed
  /\ UNCHANGED <<now, likes, flags, help_answers, blog_posts, awards, pc,
                 calls_made, aside, ledger>>

\* ContentService.create_blog_post
CreateBlogPost(u) ==
  /\ Quiet
  /\ SourceRows < MaxRows
  /\ blog_posts' = AddRow(blog_posts, [author_id |-> u, created_at |-> now])
  /\ Disturbed
  /\ UNCHANGED <<aside, ledger, now, scripts, likes, flags, help_answers,
                 awards, pc, calls_made>>

\* InteractionService.like_content
LikeContent(u) ==
  /\ Quiet
  /\ SourceRows < MaxRows
  /\ likes' = AddRow(likes, [user_id |-> u, created_at |-> now])
  /\ Disturbed
  /\ UNCHANGED <<now, scripts, flags, help_answers, blog_posts, awards, pc,
                 calls_made, aside, ledger>>

\* InteractionService.flag_content
FlagContent(u) ==
  /\ Quiet
  /\ SourceRows < MaxRows
  /\ flags' = AddRow(flags, [flagger_id |-> u])
  /\ Disturbed
  /\ UNCHANGED <<now, scripts, likes, help_answers, blog_posts, awards, pc,
                 calls_made, aside, ledger>>

\* HelpService.create_help_answer
CreateHelpAnswer(u) ==
  /\ Quiet
  /\ SourceRows < MaxRows
  /\ help_answers' = AddRow(help_answers, [responder_id |-> u])
  /\ Disturbed
  /\ UNCHANGED <<aside, ledger, now, scripts, likes, flags, blog_posts,
                 awards, pc, calls_made>>

\* The wall clock advances.
Tick ==
  /\ Quiet
  /\ now < MaxTime
  /\ \E t \in (now + 1) .. MaxTime : now' = t
  /\ Disturbed
  /\ UNCHANGED <<aside, ledger, sources, awards, pc, calls_made>>

\* -------------------------------------- check_and_award_trophies_and_challenges
HasAward(u) ==
  \/ \E r \in DOMAIN trophies : r.user_id = u
  \/ \E r \in DOMAIN challenges : r.user_id = u

OthersRunning(c, u) == {d \in Calls \ {c} : Running(d) /\ call[d].user_id = u}

\* The except clause at lines 217-218: the call raises DatabaseError.  No
\* rollback is issued; what an earlier commit made durable stays.
Raise(c, fault) ==
  /\ pc' = [pc EXCEPT ![c] = "failed"]
  /\ call' = [call EXCEPT ![c].ret = RaisesDatabaseError,
                          ![c].faulted = @ \/ fault,
                          ![c].failed_at = pc[c]]
  /\ settled' = [settled EXCEPT ![call[c].user_id] = FALSE]

\* The call is made: check_and_award_trophies_and_challenges(u).
Evaluate(c, u) ==
  /\ NoneFinished
  /\ pc[c] = "idle"
  /\ (c = "s2" => pc["s1"] # "idle")
  /\ calls_made < MaxCalls
  /\ calls_made' = calls_made + 1
  /\ pc' = [pc EXCEPT ![c] = "aggregate"]
  /\ call' = [d \in Calls |->
       IF d = c
       THEN [IdleCall EXCEPT !.user_id = u,
                             !.fresh = ~HasAward(u),
                             !.repeat = settled[u],
                             !.clean = (OthersRunning(c, u) = {}),
                             !.even =
                               IF OthersRunning(c, u) = {}
                               THEN user[u].trophies_count
                                      = BagCount(trophies,
                                          {r \in DOMAIN trophies :
                                             r.user_id = u})
                               ELSE \A o \in OthersRunning(c, u) :
                                      call[o].even]
       ELSE IF d \in OthersRunning(c, u)
       THEN [call[d] EXCEPT !.clean = FALSE]
       ELSE call[d]]
  /\ UNCHANGED <<aside, ledger, now, sources, awards, settled>>

\* Aggregate in which reading the scripts of the user counts as a view of
\* each of them.
AggregateCountingViews(c) ==
  /\ NoneFinished
  /\ pc[c] = "aggregate"
  /\ \/ /\ pc' = [pc EXCEPT ![c] = "rules"]
        /\ call' = [call EXCEPT ![c].snapshot = Snapshot(call[c].user_id)]
        /\ UNCHANGED settled
     \/ Raise(c, TRUE)
  /\ LET viewed(r) == IF r.author_id = call[c].user_id
                      THEN [r EXCEPT !.views = @ + 1] ELSE r
     IN  scripts' = [x \in {viewed(r) : r \in DOMAIN scripts} |->
                       BagCount(scripts,
                                {r \in DOMAIN scripts : viewed(r) = x})]
  /\ UNCHANGED <<aside, ledger, now, likes, flags, help_answers, blog_posts,
                 awards, calls_made>>

\* Lines 108-120: the first batch of metric queries.
Aggregate(c) ==
  /\ NoneFinished
  /\ pc[c] = "aggregate"
  /\ \/ /\ pc' = [pc EXCEPT ![c] = "rules"]
        /\ call' = [call EXCEPT ![c].snapshot = Snapshot(call[c].user_id)]
        /\ UNCHANGED settled
     \/ Raise(c, TRUE)
  /\ UNCHANGED <<aside, ledger, now, sources, awards, calls_made>>

\* Lines 122-169: the trophy rules, with the queries of lines 138, 140 and
\* 146.  view_sum is None for a user without scripts, and None >= threshold
\* at line 136 raises TypeError.
TrophyRules(c) ==
  /\ NoneFinished
  /\ pc[c] = "rules"
  /\ LET u == call[c].user_id
         s == call[c].snapshot
     IN  \/ /\ s.view_sum # None
            /\ pc' = [pc EXCEPT ![c] = "windowed"]
            /\ LET reviewer == get_count(likes, "user_id", u, DOMAIN likes)
               IN  call' = [call EXCEPT
                     ![c].reviewer = reviewer,
                     ![c].trophies_to_award =
                       TrophiesToAward(s, reviewer,
                         is_trending_script_of_the_week(u, now),
                         is_top_coder_of_the_month(u, now))]
            /\ UNCHANGED settled
         \/ /\ s.view_sum = None
            /\ Raise(c, FALSE)
         \/ Raise(c, TRUE)
  /\ UNCHANGED <<aside, ledger, now, sources, awards, calls_made>>

\* ChallengeRules in which the trophies are inserted and committed before
\* the windowed queries run, so that a failing query leaves them behind.
ChallengeRulesAfterInsert(c) ==
  /\ NoneFinished
  /\ pc[c] = "windowed"
  /\ \/ /\ pc' = [pc EXCEPT ![c] = "apply"]
        /\ LET w == Windowed(call[c].user_id, now)
           IN  call' = [call EXCEPT ![c].windowed = w,
                                    ![c].challenges_to_award =
                                      ChallengesToAward(w)]
        /\ UNCHANGED <<settled, awards>>
     \/ /\ pc' = [pc EXCEPT ![c] = "failed"]
        /\ call' = [call EXCEPT ![c].ret = RaisesDatabaseError,
                                ![c].faulted = TRUE,
                                ![c].failed_at = pc[c],
                                ![c].committed = TRUE]
        /\ trophies' = AddRows(trophies,
             TrophyRows(call[c].user_id, call[c].trophies_to_award))
        /\ settled' = [settled EXCEPT ![call[c].user_id] = FALSE]
        /\ UNCHANGED <<challenges, user>>
  /\ UNCHANGED <<aside, ledger, now, sources, calls_made>>

\* Lines 171-199: the windowed metric queries and the challenge rules.
ChallengeRules(c) ==
  /\ NoneFinished
  /\ pc[c] = "windowed"
  /\ \/ /\ pc' = [pc EXCEPT ![c] = "apply"]
        /\ LET w == Windowed(call[c].user_id, now)
           IN  call' = [call EXCEPT ![c].windowed = w,
                                    ![c].challenges_to_award =
                                      ChallengesToAward(w)]
        /\ UNCHANGED settled
     \/ Raise(c, TRUE)
  /\ UNCHANGED <<aside, ledger, now, sources, awards, calls_made>>

NotRecorded(B, u, name) == ~\E r \in DOMAIN B : r.user_id = u /\ r.name = name

\* Lines 201-209: add_all and the first commit.
Apply(c) ==
  /\ NoneFinished
  /\ pc[c] = "apply"
  /\ LET u == call[c].user_id
         names == call[c].trophies_to_award
         pairs == call[c].challenges_to_award
     IN  \/ /\ trophies' = AddRows(trophies, TrophyRows(u, names))
            /\ challenges' = AddRows(challenges, ChallengeRows(u, pairs))
            /\ pc' = [pc EXCEPT ![c] = "lookup"]
            /\ call' = [call EXCEPT
                 ![c].committed = TRUE,
                 ![c].commits = @ + 1,
                 ![c].new_trophies =
                   SelectSeq(names, LAMBDA n : NotRecorded(trophies, u, n)),
                 ![c].new_challenges =
                   SelectSeq(pairs, LAMBDA p : NotRecorded(challenges, u, p[1]))]
            /\ UNCHANGED <<user, settled>>
         \/ /\ Raise(c, TRUE)
            /\ UNCHANGED awards
  /\ UNCHANGED <<aside, ledger, now, sources, calls_made>>

\* Lines 212-214: the User row is read into the session and the two counters
\* are raised on the object.
LookupUser(c) ==
  /\ NoneFinished
  /\ pc[c] = "lookup"
  /\ \/ /\ pc' = [pc EXCEPT ![c] = "counters"]
        /\ call' = [call EXCEPT ![c].loaded = user[call[c].user_id]]
        /\ UNCHANGED settled
     \/ Raise(c, TRUE)
  /\ UNCHANGED <<aside, ledger, now, sources, awards, calls_made>>

\* Lines 215-216: the second commit writes the counters the session has
\* changed, as the values computed on the object; the call then returns,
\* and a function without a return statement returns None.
UpdateCounts(c) ==
  /\ NoneFinished
  /\ pc[c] = "counters"
  /\ LET u == call[c].user_id
         t == Len(call[c].trophies_to_award)
         n == Len(call[c].challenges_to_award)
     IN  \/ /\ user' = [user EXCEPT
                 ![u].trophies_count =
                   IF t > 0 THEN call[c].loaded.trophies_count + t ELSE @,
                 ![u].challenges_count =
                   IF n > 0 THEN call[c].loaded.challenges_count + n ELSE @]
            /\ pc' = [pc EXCEPT ![c] = "done"]
            /\ call' = [d \in Calls |->
                 IF d = c
                 THEN [call[c] EXCEPT
                         !.counted = [ZeroCounts EXCEPT
                                        !.trophies_count = t,
                                        !.challenges_count = n],
                         !.commits = @ + 1,
                         !.ret = ReturnsNone]
                 ELSE IF d \in OthersRunning(c, u)
                 THEN [call[d] EXCEPT !.peer_done = TRUE]
                 ELSE call[d]]
            /\ settled' = [settled EXCEPT
                 ![u] = call[c].clean /\ OthersRunning(c, u) = {}]
         \/ /\ Raise(c, TRUE)
            /\ UNCHANGED user
  /\ UNCHANGED <<aside, ledger, now, sources, trophies, challenges, calls_made>>

\* The caller receives the outcome; the session is free for its next call.
Return(c) ==
  /\ Finished(c)
  /\ pc' = [pc EXCEPT ![c] = "idle"]
  /\ call' = [call EXCEPT ![c] = IdleCall]
  /\ UNCHANGED <<aside, ledger, now, sources, awards, calls_made, settled>>

Next ==
  \/ \E u \in Evaluated, in \in ScriptInputs : CreateScript(u, in)
  \/ \E u \in Users : CreateBlogPost(u)
  \/ \E u \in Evaluated : LikeContent(u)
  \/ \E u \in Evaluated : FlagContent(u)
  \/ \E u \in Evaluated : CreateHelpAnswer(u)
  \/ Tick
  \/ \E c \in Calls, u \in Evaluated : Evaluate(c, u)
  \/ \E c \in Calls : Aggregate(c)
  \/ \E c \in Calls : TrophyRules(c)
  \/ \E c \in Calls : ChallengeRules(c)
  \/ \E c \in Calls : Apply(c)
  \/ \E c \in Calls : LookupUser(c)
  \/ \E c \in Calls : UpdateCounts(c)
  \/ \E c \in Calls : Return(c)

Spec == Init /\ [][Next]_vars

TypeOK ==
  /\ now \in 0 .. MaxTime
  /\ SourceRows <= MaxRows
  /\ calls_made \in 0 .. MaxCalls
  /\ \A c \in Calls : pc[c] \in {"idle", "aggregate", "rules", "windowed",
       "apply", "lookup", "counters", "done", "failed"}

\* ------------------------------------------------ direct award operations
\* The award operations the API routers call on the service.  The service
\* instance and its session live for one request (get_db, get_service);
\* EndRequest ends it.  An item id is modelled by the row it names;
\* MissingId names no row and MissingUser names no User row.
LedgerNames == {"Custom Trophy"}
Badges == {"b1"}
Achievements == {"a1"}
MissingId == [name |-> "none", user_id |-> "none"]
MissingUser == "u0"

\* A direct operation is made between the evaluation calls; the writing
\* operations and the evaluation calls together are at most MaxOps.
MayOperate == Quiet /\ ops_made + calls_made < MaxOps

\* The request has its own session and service instance: nothing is left
\* in them by an earlier operation.
OwnRequest == pending = NoPending /\ cache = {}

RemoveRow(B, r) == B (-) SetToBag({r})

\* Session.commit(): every row added to the session and not yet written is
\* written with the commit.
Committed(B, table) == B (+) pending[table]

\* Session.rollback() in the except clauses of lines 50, 74 and 84: the rows
\* added to the session and not yet committed are dropped.
Rollback == pending' = NoPending

\* _get_item (lines 54-62): the ItemNotFoundError raised at line 59 is caught
\* by the except clause at line 61 and leaves as DatabaseError.
get_item(B, id) == IF BagIn(id, B) THEN "ok" ELSE "DatabaseError"

\* award_trophy -> _award_item(Trophy, user_id, name), lines 42-52.
AwardTrophy(u, name) ==
  /\ MayOperate
  /\ ops_made' = ops_made + 1
  /\ \/ /\ trophies' = AddRow(trophies, [name |-> name, user_id |-> u])
        /\ user_badges' = Committed(user_badges, "user_badges")
        /\ user_achievements' =
             Committed(user_achievements, "user_achievements")
        /\ pending' = NoPending
        /\ reply' = Reply("award_trophy", "ok", FALSE)
     \/ /\ UNCHANGED <<trophies, user_badges, user_achievements>>
        /\ Rollback
        /\ reply' = Reply("award_trophy", "DatabaseError", FALSE)
  /\ UNCHANGED <<now, aside, sources, challenges, user, pc, call, calls_made,
                 settled, cache>>

\* get_trophy (lines 280-283) -> _get_item(Trophy, trophy_id), behind
\* lru_cache: a trophy the instance has returned before is returned again
\* without a query; an exception is not cached.
GetTrophy(id) ==
  /\ MayOperate
  /\ \/ /\ id \in cache
        /\ reply' = Reply("get_trophy", "ok", ~BagIn(id, trophies))
        /\ UNCHANGED cache
     \/ /\ id \notin cache
        /\ \/ /\ reply' = Reply("get_trophy", get_item(trophies, id),
                                ~BagIn(id, trophies))
              /\ cache' = IF BagIn(id, trophies) THEN cache \cup {id}
                                                 ELSE cache
           \/ /\ reply' = Reply("get_trophy", "DatabaseError", FALSE)
              /\ UNCHANGED cache
  /\ UNCHANGED <<now, aside, sources, awards, pc, call, calls_made, settled,
                 user_badges, user_achievements, pending, ops_made>>

\* The keys and values update_trophy is given in trophy_in.
TrophyUpdates == {<<"name", "Renamed">>, <<"user_id", "u2">>}

\* update_trophy -> _update_item(Trophy, trophy_id, trophy_in), lines 64-75:
\* every key of trophy_in is set on the row.  A cached trophy is the same
\* object and carries the new values.
UpdateTrophy(id, item_in) ==
  /\ MayOperate
  /\ ops_made' = ops_made + 1
  /\ \/ /\ get_item(trophies, id) = "ok"
        /\ trophies' = AddRow(RemoveRow(trophies, id),
                              [id EXCEPT ![item_in[1]] = item_in[2]])
        /\ cache' = IF id \in cache
                    THEN (cache \ {id})
                           \cup {[id EXCEPT ![item_in[1]] = item_in[2]]}
                    ELSE cache
        /\ user_badges' = Committed(user_badges, "user_badges")
        /\ user_achievements' =
             Committed(user_achievements, "user_achievements")
        /\ pending' = NoPending
        /\ reply' = Reply("update_trophy", "ok", FALSE)
     \/ /\ get_item(trophies, id) # "ok"
        /\ UNCHANGED <<trophies, cache, user_badges, user_achievements>>
        /\ Rollback
        /\ reply' = Reply("update_trophy", "DatabaseError", TRUE)
     \/ /\ UNCHANGED <<trophies, cache, user_badges, user_achievements>>
        /\ Rollback
        /\ reply' = Reply("update_trophy", "DatabaseError", FALSE)
  /\ UNCHANGED <<now, aside, sources, challenges, user, pc, call, calls_made,
                 settled>>

\* _delete_item (lines 77-85) on table B: the row is deleted and committed,
\* or the operation raises DatabaseError after a rollback.  No counter of
\* the User row is touched.
delete_item(op, B, id) ==
  IF get_item(B, id) = "ok"
  THEN {<<RemoveRow(B, id), Reply(op, "ok", FALSE)>>,
        <<B, Reply(op, "DatabaseError", FALSE)>>}
  ELSE {<<B, Reply(op, "DatabaseError", TRUE)>>}

\* delete_trophy -> _delete_item(Trophy, trophy_id).
DeleteTrophy(id) ==
  /\ MayOperate
  /\ ops_made' = ops_made + 1
  /\ \E out \in delete_item("delete_trophy", trophies, id) :
       /\ trophies' = out[1]
       /\ reply' = out[2]
       /\ IF out[2].kind = "ok"
          THEN /\ user_badges' = Committed(user_badges, "user_badges")
               /\ user_achievements' =
                    Committed(user_achievements, "user_achievements")
               /\ pending' = NoPending
          ELSE /\ UNCHANGED <<user_badges, user_achievements>>
               /\ Rollback
  /\ UNCHANGED <<now, aside, sources, challenges, user, pc, call, calls_made,
                 settled, cache>>

\* award_user_badge (lines 372-380): the row is added to the session, the
\* user is looked up, the counter is raised and both are committed.  No
\* except clause rolls the session back: when the lookup finds no user
\* (line 376 raises on None) or a statement raises, the row may stay in
\* the session.
AwardUserBadge(u, b) ==
  /\ MayOperate
  /\ ops_made' = ops_made + 1
  /\ \/ /\ u \in Users
        /\ user_badges' = AddRow(Committed(user_badges, "user_badges"),
                                 [user_id |-> u, badge_id |-> b])
        /\ user_achievements' =
             Committed(user_achievements, "user_achievements")
        /\ user' = [user EXCEPT ![u].user_badges_count = @ + 1]
        /\ pending' = NoPending
        /\ reply' = Reply("award_user_badge", "ok", FALSE)
     \/ /\ UNCHANGED <<user_badges, user_achievements, user>>
        /\ \/ pending' = [pending EXCEPT !.user_badges =
                            AddRow(@, [user_id |-> u, badge_id |-> b])]
           \/ pending' = NoPending
        /\ reply' = Reply("award_user_badge", "Exception", FALSE)
  /\ UNCHANGED <<now, aside, sources, trophies, challenges, pc, call,
                 calls_made, settled, cache>>

\* delete_user_badge -> _delete_item(UserBadge, user_badge_id).
DeleteUserBadge(id) ==
  /\ MayOperate
  /\ ops_made' = ops_made + 1
  /\ \E out \in delete_item("delete_user_badge", user_badges, id) :
       /\ reply' = out[2]
       /\ IF out[2].kind = "ok"
          THEN /\ user_badges' =
                    RemoveRow(Committed(user_badges, "user_badges"), id)
               /\ user_achievements' =
                    Committed(user_achievements, "user_achievements")
               /\ pending' = NoPending
          ELSE /\ UNCHANGED <<user_badges, user_achievements>>
               /\ Rollback
  /\ UNCHANGED <<now, aside, sources, awards, pc, call, calls_made, settled,
                 cache>>

\* award_user_achievement (lines 382-390), of the same shape.
AwardUserAchievement(u, a) ==
  /\ MayOperate
  /\ ops_made' = ops_made + 1
  /\ \/ /\ u \in Users
        /\ user_achievements' =
             AddRow(Committed(user_achievements, "user_achievements"),
                    [user_id |-> u, achievement_id |-> a])
        /\ user_badges' = Committed(user_badges, "user_badges")
        /\ user' = [user EXCEPT ![u].user_achievements_count = @ + 1]
        /\ pending' = NoPending
        /\ reply' = Reply("award_user_achievement", "ok", FALSE)
     \/ /\ UNCHANGED <<user_badges, user_achievements, user>>
        /\ \/ pending' = [pending EXCEPT !.user_achievements =
                            AddRow(@, [user_id |-> u, achievement_id |-> a])]
           \/ pending' = NoPending
        /\ reply' = Reply("award_user_achievement", "Exception", FALSE)
  /\ UNCHANGED <<now, aside, sources, trophies, challenges, pc, call,
                 calls_made, settled, cache>>

\* delete_user_achievement -> _delete_item(UserAchievement, id).
DeleteUserAchievement(id) ==
  /\ MayOperate
  /\ ops_made' = ops_made + 1
  /\ \E out \in delete_item("delete_user_achievement", user_achievements, id) :
       /\ reply' = out[2]
       /\ IF out[2].kind = "ok"
          THEN /\ user_achievements' =
                    RemoveRow(Committed(user_achievements,
                                        "user_achievements"), id)
               /\ user_badges' = Committed(user_badges, "user_badges")
               /\ pending' = NoPending
          ELSE /\ UNCHANGED <<user_badges, user_achievements>>
               /\ Rollback
  /\ UNCHANGED <<now, aside, sources, awards, pc, call, calls_made, settled,
                 cache>>

\* The request ends: get_db closes the session, and the next request gets a
\* new session and a new service instance, for which nothing is cached.
EndRequest ==
  /\ ~OwnRequest
  /\ pending' = NoPending
  /\ cache' = {}
  /\ UNCHANGED <<now, aside, sources, awards, pc, call, calls_made, settled,
                 user_badges, user_achievements, reply, ops_made>>

\* The direct operations, each in a request of its own, together with the
\* evaluation calls of one session.
NextLedger ==
  \/ OwnRequest /\ \E u \in Evaluated, name \in LedgerNames :
                     AwardTrophy(u, name)
  \/ OwnRequest /\ \E id \in DOMAIN trophies \cup {MissingId} : GetTrophy(id)
  \/ OwnRequest /\ \E id \in DOMAIN trophies \cup {MissingId},
                       item_in \in TrophyUpdates : UpdateTrophy(id, item_in)
  \/ OwnRequest /\ \E id \in DOMAIN trophies \cup {MissingId} :
                     DeleteTrophy(id)
  \/ OwnRequest /\ \E u \in Evaluated, b \in Badges : AwardUserBadge(u, b)
  \/ OwnRequest /\ \E id \in DOMAIN user_badges \cup {MissingId} :
                     DeleteUserBadge(id)
  \/ OwnRequest /\ \E u \in Evaluated, a \in Achievements :
                     AwardUserAchievement(u, a)
  \/ OwnRequest /\ \E id \in DOMAIN user_achievements \cup {MissingId} :
                     DeleteUserAchievement(id)
  \/ EndRequest
  \/ OwnRequest /\ \E u \in Evaluated, in \in ScriptInputs :
                     CreateScript(u, in)
  \/ OwnRequest /\ \E u \in Evaluated : Evaluate("s1", u)
  \/ OwnRequest /\ Aggregate("s1")
  \/ OwnRequest /\ TrophyRules("s1")
  \/ OwnRequest /\ ChallengeRules("s1")
  \/ OwnRequest /\ Apply("s1")
  \/ OwnRequest /\ LookupUser("s1")
  \/ OwnRequest /\ UpdateCounts("s1")
  \/ OwnRequest /\ Return("s1")

SpecLedger == Init /\ [][NextLedger]_vars

\* The direct operations made on one service instance and its session,
\* request after request.
NextInstance ==
  \/ \E u \in Evaluated, name \in LedgerNames : AwardTrophy(u, name)
  \/ \E id \in DOMAIN trophies \cup cache \cup {MissingId} : GetTrophy(id)
  \/ \E id \in DOMAIN trophies \cup {MissingId}, item_in \in TrophyUpdates :
       UpdateTrophy(id, item_in)
  \/ \E id \in DOMAIN trophies \cup {MissingId} : DeleteTrophy(id)
  \/ \E u \in Evaluated \cup {MissingUser}, b \in Badges :
       AwardUserBadge(u, b)
  \/ \E id \in DOMAIN user_badges \cup {MissingId} : DeleteUserBadge(id)
  \/ \E u \in Evaluated \cup {MissingUser}, a \in Achievements :
       AwardUserAchievement(u, a)
  \/ \E id \in DOMAIN user_achievements \cup {MissingId} :
       DeleteUserAchievement(id)
  \/ EndRequest

SpecInstance == Init /\ [][NextInstance]_vars

\* ------------------------------------------------- activity of all users
\* The activity of every user, with the evaluation calls of one session.
NextContent ==
  \/ \E u \in Users, in \in ScriptInputs : CreateScript(u, in)
  \/ \E u \in Users : CreateBlogPost(u)
  \/ \E u \in Users : LikeContent(u)
  \/ Tick
  \/ \E u \in Evaluated : Evaluate("s1", u)
  \/ Aggregate("s1")
  \/ TrophyRules("s1")
  \/ ChallengeRules("s1")
  \/ Apply("s1")
  \/ LookupUser("s1")
  \/ UpdateCounts("s1")
  \/ Return("s1")

SpecContent == Init /\ [][NextContent]_vars

\* ------------------------------------------------------- the trophy rules
\* The trophy rules of lines 128-169 applied to metric values of any size.
MetricValues ==
  { [EmptySnapshot EXCEPT !.script_count = n, !.view_sum = v,
                          !.like_count_on_scripts = l] :
      n \in 0 .. MaxCount, v \in 0 .. 2, l \in 0 .. 2 }

InitTrophyRules ==
  /\ InitTables
  /\ rule_probe \in {Unapplied(s) : s \in MetricValues}
  /\ role_assignments = {}
  /\ role_permissions = {}
  /\ project_reply = NoProjectReply

ApplyTrophyRules(reviewer, trending, top_coder) ==
  /\ ~rule_probe.applied
  /\ rule_probe' =
       [rule_probe EXCEPT
          !.satisfied = TrophiesToAward(rule_probe.snapshot, reviewer,
                                        trending, top_coder),
          !.applied = TRUE]
  /\ UNCHANGED <<now, sources, awards, pc, call, calls_made, settled, ledger,
                 role_assignments, role_permissions, project_reply>>

NextTrophyRules ==
  \E reviewer \in 0 .. 2, trending \in BOOLEAN, top_coder \in BOOLEAN :
    ApplyTrophyRules(reviewer, trending, top_coder)

SpecTrophyRules == InitTrophyRules /\ [][NextTrophyRules]_vars

\* ------------------------------------------------------ project permissions
Projects == {"p1", "p2"}
Roles == {"owner", "viewer"}
PermissionNames == {"update_project", "assign_role_to_user"}

AssignmentRows == [user_id : Users, role_id : Roles, project_id : Projects]
PermissionRows == [role_id : Roles, permission_name : PermissionNames]

\* The tables may hold any role assignments and role permissions: no
\* constraint keeps a user to one role in a project.
InitProjects ==
  /\ InitTables
  /\ rule_probe = Unapplied(EmptySnapshot)
  /\ role_assignments \in
       {S \in SUBSET AssignmentRows : Cardinality(S) <= MaxAssignments}
  /\ role_permissions \in SUBSET PermissionRows
  /\ project_reply = NoProjectReply

\* has_permission (permissions_util.py lines 5-19): the values it can
\* return.  first() takes one of the user's role assignments in the
\* project, whichever the database returns first, and only the role of
\* that assignment is looked up.
has_permission(user_id, project_id, permission_name) ==
  LET matching == {ra \in role_assignments :
                     ra.user_id = user_id /\ ra.project_id = project_id}
  IN  IF matching = {}
      THEN {FALSE}
      ELSE { \E rp \in role_permissions :
               /\ rp.role_id = ra.role_id
               /\ rp.permission_name = permission_name : ra \in matching }

ProjectReply(op, u, p, n, granted) ==
  [op |-> op, user_id |-> u, project_id |-> p, permission_name |-> n,
   granted |-> granted]

\* ProjectService.update_project (lines 37-45): PermissionDeniedError
\* unless has_permission grants "update_project".
UpdateProject(u, p) ==
  /\ \E granted \in has_permission(u, p, "update_project") :
       project_reply' =
         ProjectReply("update_project", u, p, "update_project", granted)
  /\ UNCHANGED <<now, sources, awards, pc, call, calls_made, settled, ledger,
                 rule_probe, role_assignments, role_permissions>>

\* ProjectService.assign_role_to_user (lines 94-102).
AssignRoleToUser(u, p, target, role) ==
  /\ Cardinality(role_assignments) < MaxAssignments
  /\ \E granted \in has_permission(u, p, "assign_role_to_user") :
       /\ project_reply' = ProjectReply("assign_role_to_user", u, p,
                                        "assign_role_to_user", granted)
       /\ role_assignments' =
            IF granted
            THEN role_assignments \cup
                   {[user_id |-> target, role_id |-> role, project_id |-> p]}
            ELSE role_assignments
  /\ UNCHANGED <<now, sources, awards, pc, call, calls_made, settled, ledger,
                 rule_probe, role_permissions>>

NextProjects ==
  \/ \E u \in Users, p \in Projects : UpdateProject(u, p)
  \/ \E u \in Users, p \in Projects, target \in Users, role \in Roles :
       AssignRoleToUser(u, p, target, role)

SpecProjects == InitProjects /\ [][NextProjects]_vars

\* ============================================================== properties
TrophyRowsOf(u) == BagCount(trophies, {r \in DOMAIN trophies : r.user_id = u})
ChallengeRowsOf(u) ==
  BagCount(challenges, {r \in DOMAIN challenges : r.user_id = u})

\* The user owns no row of any metric source table.
NoActivity(u) ==
  /\ OwnedBy(scripts, "author_id", u) = {}
  /\ OwnedBy(likes, "user_id", u) = {}
  /\ OwnedBy(flags, "flagger_id", u) = {}
  /\ OwnedBy(help_answers, "responder_id", u) = {}
  /\ OwnedBy(blog_posts, "author_id", u) = {}

AfterTrophyRules == {"windowed", "apply", "lookup", "counters", "done"}
\* The positions at which a call holds its list of satisfied challenges.
AfterChallengeRules == {"apply", "lookup", "counters", "done"}

InSeq(x, seq) == \E i \in 1 .. Len(seq) : seq[i] = x

\* The threshold rules of the rule set: <<metric, threshold, outcome>>.
TrophyThresholdRules ==
  { <<"script_count", "ROOKIE_CONTRIBUTOR_THRESHOLD", "Rookie Contributor">>,
    <<"syntax_sorcerer_count", "SYNTAX_SORCERER_THRESHOLD", "Syntax Sorcerer">>,
    <<"cross_language_count", "CROSS_LANGUAGE_WIZARD_THRESHOLD",
      "Cross-Language Wizard">>,
    <<"like_count_on_scripts", "POPULAR_CREATOR_THRESHOLD", "Popular Creator">>,
    <<"view_sum", "MASTERMIND_THRESHOLD", "Mastermind">>,
    <<"flag_count", "BUG_HUNTER_THRESHOLD", "Bug Hunter">>,
    <<"help_answer_count", "HELPER_THRESHOLD", "Helper">>,
    <<"blog_post_count", "BLOG_WRITER_THRESHOLD", "Blog Writer">>,
    <<"like_count_on_posts", "POPULAR_BLOGGER_THRESHOLD", "Popular Blogger">>,
    <<"blog_post_count", "PROLIFIC_BLOGGER_THRESHOLD", "Prolific Blogger">>,
    <<"like_count_on_posts", "BLOG_INFLUENCER_THRESHOLD", "Blog Influencer">>,
    <<"script_count", "BRONZE_THRESHOLD", "Bronze Trophy">>,
    <<"script_count", "SILVER_THRESHOLD", "Silver Trophy">>,
    <<"script_count", "GOLD_THRESHOLD", "Gold Trophy">>,
    <<"syntax_sorcerer_count", "POLYMATH_THRESHOLD", "Polymath Trophy">>,
    <<"innovator_count", "INNOVATOR_THRESHOLD", "Innovator Trophy">>,
    <<"trailblazer_count", "TRAILBLAZER_THRESHOLD", "Trailblazer Trophy">>,
    <<"collaborator_count", "COLLABORATOR_THRESHOLD", "Collaborator Trophy">> }

ChallengeThresholdRules ==
  { <<"daily_upload_count", "DAILY_UPLOAD_THRESHOLD",
      <<"Daily Upload", "100 bonus XP">> >>,
    <<"weekly_upvoter_count", "WEEKLY_UPVOTER_THRESHOLD",
      <<"Weekly Upvoter", "Reviewer badge">> >>,
    <<"blog_post_month_count", "PROLIFIC_BLOGGER_MONTH_THRESHOLD",
      <<"Prolific Blogger", "Prolific Blogger badge">> >>,
    <<"like_count_on_posts", "BLOG_INFLUENCER_MONTH_THRESHOLD",
      <<"Blog Influencer", "Blog Influencer badge">> >> }

C6_BelowThreshold ==
  \E c \in Calls :
    /\ pc[c] \in AfterTrophyRules
    /\ call[c].snapshot.script_count
         = thresholds.ROOKIE_CONTRIBUTOR_THRESHOLD - 1
    /\ ~InSeq("Rookie Contributor", call[c].trophies_to_award)

\* The outcomes a call has newly granted, trophies before challenges.
NewlyGranted(c) ==
  [i \in 1 .. Len(call[c].new_trophies) |-> <<call[c].new_trophies[i]>>]
    \o call[c].new_challenges

C8_NoScriptsNoTrophies ==
  \A c \in Calls :
    (Finished(c) /\ ~call[c].faulted /\ NoActivity(call[c].user_id)) =>
      /\ pc[c] = "done"
      /\ granted_trophies(c) = <<>>
      /\ user[call[c].user_id].trophies_count = 0

\* C9: an evaluation of a user who had no award and owns exactly
\* ROOKIE_CONTRIBUTOR_THRESHOLD scripts, running alone and without a failing
\* statement, returns exactly "Rookie Contributor"; afterwards
\* trophies_count is 1 and the Trophy row exists.
C9_RookieScenario ==
  \A c \in Calls :
    LET u == call[c].user_id
    IN  ( /\ Finished(c) /\ ~call[c].faulted
          /\ call[c].fresh /\ call[c].clean
          /\ get_count(scripts, "author_id", u, DOMAIN scripts)
               = thresholds.ROOKIE_CONTRIBUTOR_THRESHOLD ) =>
          /\ pc[c] = "done"
          /\ call[c].ret.kind = "list"
          /\ call[c].ret.value = << <<"Rookie Contributor">> >>
          /\ user[u].trophies_count = 1
          /\ [name |-> "Rookie Contributor", user_id |-> u]
               \in DOMAIN trophies

\* C10: an evaluation of a user whose only activity is one script uploaded
\* today, not a Python script, and in which no statement fails, leaves a
\* Challenge row "Daily Upload" with reward "100 bonus XP" and
\* challenges_count = 1.
C10_DailyUploadScenario ==
  \A c \in Calls :
    LET u == call[c].user_id
        mine == OwnedBy(scripts, "author_id", u)
    IN  ( /\ Finished(c) /\ ~call[c].faulted
          /\ get_count(scripts, "author_id", u, DOMAIN scripts) = 1
          /\ \A r \in mine : /\ DayOf(r.created_at) = DayOf(now)
                             /\ r.language # "Python"
          /\ OwnedBy(likes, "user_id", u) = {}
          /\ OwnedBy(blog_posts, "author_id", u) = {}
          /\ thresholds.DAILY_UPLOAD_THRESHOLD = 1 ) =>
          /\ pc[c] = "done"
          /\ [name |-> "Daily Upload", user_id |-> u,
              reward |-> "100 bonus XP"] \in DOMAIN challenges
          /\ user[u].challenges_count = 1

DeclaredTrophies ==
  << "Rookie Contributor", "Syntax Sorcerer", "Cross-Language Wizard",
     "Popular Creator", "Mastermind", "Reviewer", "Trendsetter", "Bug Hunter",
     "Helper", "Top Coder", "Blog Writer", "Popular Blogger",
     "Prolific Blogger", "Blog Influencer", "Bronze Trophy", "Silver Trophy",
     "Gold Trophy", "Polymath Trophy", "Innovator Trophy",
     "Trailblazer Trophy", "Collaborator Trophy" >>

\* The outcomes of the challenge rules in the order of their declaration.
DeclaredChallenges ==
  << <<"Daily Upload", "100 bonus XP">>,
     <<"Weekly Upvoter", "Reviewer badge">>,
     <<"Pythonista", "Pythonista badge">>,
     <<"Blogger", "Blogger badge">>,
     <<"Prolific Blogger", "Prolific Blogger badge">>,
     <<"Blog Influencer", "Blog Influencer badge">> >>

\* The condition of the trophy rule with outcome n holds for what call c read.
TrophyRuleHolds(c, n) ==
  \/ \E rule \in TrophyThresholdRules :
       /\ rule[3] = n
       /\ call[c].snapshot[rule[1]] >= thresholds[rule[2]]
  \/ n = "Reviewer" /\ call[c].reviewer >= thresholds.REVIEWER_THRESHOLD
  \/ n = "Trendsetter"
       /\ is_trending_script_of_the_week(call[c].user_id, now)
  \/ n = "Top Coder" /\ is_top_coder_of_the_month(call[c].user_id, now)

\* The condition of the challenge rule with outcome p holds for what c read.
ChallengeRuleHolds(c, p) ==
  \/ \E rule \in ChallengeThresholdRules :
       /\ rule[3] = p
       /\ call[c].windowed[rule[1]] >= thresholds[rule[2]]
  \/ p[1] = "Pythonista" /\ call[c].windowed.pythonista_count >= 1
  \/ p[1] = "Blogger" /\ call[c].windowed.blog_post_week_count >= 1

\* C12: the satisfied trophies of a call are the subsequence of the declared
\* rule list formed by the rules whose condition holds, and likewise the
\* satisfied challenges: the order is the order of declaration, whatever the
\* metric values are.
C12_DeclarationOrder ==
  \A c \in Calls :
    /\ pc[c] \in AfterTrophyRules =>
         call[c].trophies_to_award
           = SelectSeq(DeclaredTrophies, LAMBDA n : TrophyRuleHolds(c, n))
    /\ pc[c] \in AfterChallengeRules =>
         call[c].challenges_to_award
           = SelectSeq(DeclaredChallenges, LAMBDA p : ChallengeRuleHolds(c, p))

\* A call lists several trophies, and "Daily Upload" before "Pythonista".
C12_Witness ==
  \E c \in Calls :
    /\ pc[c] \in AfterChallengeRules
    /\ Len(call[c].trophies_to_award) >= 3
    /\ call[c].challenges_to_award
         = << <<"Daily Upload", "100 bonus XP">>,
              <<"Pythonista", "Pythonista badge">> >>

\* The positions at which a call runs its metric aggregation queries.
AggregationPositions == {"aggregate", "rules", "windowed"}

\* C13: a call in which a metric aggregation query failed has raised
\* DatabaseError, and nothing computed from the queries that succeeded is
\* persisted: the call has inserted no award row and changed no counter.
C13_AggregationFailureAtomic ==
  \A c \in Calls :
    (pc[c] = "failed" /\ call[c].failed_at \in AggregationPositions) =>
      /\ call[c].ret = RaisesDatabaseError
      /\ granted_trophies(c) = <<>>
      /\ granted_challenges(c) = <<>>
      /\ call[c].counted = ZeroCounts
      /\ (call[c].fresh /\ call[c].clean) =>
           /\ ~HasAward(call[c].user_id)
           /\ user[call[c].user_id] = ZeroCounts

\* A windowed query failed in a call that had already found satisfied
\* trophies.
C13_Witness ==
  \E c \in Calls :
    /\ pc[c] = "failed"
    /\ call[c].failed_at = "windowed"
    /\ call[c].faulted
    /\ call[c].trophies_to_award # <<>>

UserBadgeRowsOf(u) ==
  BagCount(user_badges, {r \in DOMAIN user_badges : r.user_id = u})
UserAchievementRowsOf(u) ==
  BagCount(user_achievements,
           {r \in DOMAIN user_achievements : r.user_id = u})

\* C14: whenever no service operation is in progress, each user's
\* trophies_count equals the number of the user's Trophy rows, and the badge
\* and achievement counters equal the numbers of the user's UserBadge and
\* UserAchievement rows.
C14_CountersEqualLedger ==
  Quiet =>
    \A u \in Users :
      /\ user[u].trophies_count = TrophyRowsOf(u)
      /\ user[u].user_badges_count = UserBadgeRowsOf(u)
      /\ user[u].user_achievements_count = UserAchievementRowsOf(u)

\* C15: there is at most one UserBadge row per (user, badge) pair in every
\* reachable state.
C15_UserBadgeUnique ==
  \A r \in DOMAIN user_badges : user_badges[r] <= 1

\* C16: the Trophy rows are an append-only ledger: every step keeps every
\* Trophy row, with its name and its user.
C16_TrophiesAppendOnly ==
  [][\A r \in DOMAIN trophies :
       BagIn(r, trophies') /\ trophies'[r] >= trophies[r]]_vars

\* C19: a lookup of an item that does not exist is reported to the caller as
\* ItemNotFoundError, and DatabaseError is reported only for a failure of
\* the database.
C19_NotFoundIsDistinct ==
  /\ reply.missing => reply.kind = "ItemNotFoundError"
  /\ reply.kind = "DatabaseError" => ~reply.missing

C18_ActivityEvaluates ==
  [][sources' # sources =>
       \E c \in Calls : pc[c] = "idle" /\ pc'[c] = "aggregate"]_vars

\* C20: no step of an evaluation call, successful or failing, changes the
\* Script, Like, Flag, HelpAnswer or BlogPost table.
C20_SourcesUntouched ==
  [][(\E c \in Calls : pc'[c] # pc[c]) => sources' = sources]_vars

\* An evaluation call of a user with activity has ended after its commit.
C20_Witness ==
  \E c \in Calls :
    /\ Finished(c)
    /\ ~NoActivity(call[c].user_id)
    /\ call[c].committed

C23_TrendingWeekWindow ==
  \A c \in Calls :
    pc[c] \in AfterTrophyRules =>
      ( InSeq("Trendsetter", call[c].trophies_to_award)
          <=> \E r \in OwnedBy(scripts, "author_id", call[c].user_id) :
                InWeek(r.created_at, now) )

\* C24: the top-coder-of-the-month predicate a call evaluated is true
\* exactly if the user owns a script created in the current month, the
\* month starting on its first day at 00:00.
C24_TopCoderMonthWindow ==
  \A c \in Calls :
    pc[c] \in AfterTrophyRules =>
      ( InSeq("Top Coder", call[c].trophies_to_award)
          <=> \E r \in OwnedBy(scripts, "author_id", call[c].user_id) :
                InMonth(r.created_at, now) )

\* The scripts of user u, with their multiplicities.
OwnScripts(u) == [r \in OwnedBy(scripts, "author_id", u) |-> scripts[r]]

C26_OnlyOwnAwards ==
  [][\A c \in Calls :
       (Running(c) /\ pc'[c] # pc[c]) =>
         /\ \A v \in Users \ {call[c].user_id} : user'[v] = user[v]
         /\ \A r \in DOMAIN trophies \cup DOMAIN trophies' :
              r.user_id # call[c].user_id
                => CopiesIn(r, trophies') = CopiesIn(r, trophies)
         /\ \A r \in DOMAIN challenges \cup DOMAIN challenges' :
              r.user_id # call[c].user_id
                => CopiesIn(r, challenges') = CopiesIn(r, challenges)]_vars

\* A call has made trophies of its user durable while another user holds a
\* Trophy row.
C26_Witness ==
  \E c \in Calls :
    /\ pc[c] = "done"
    /\ granted_trophies(c) # <<>>
    /\ \E r \in DOMAIN trophies : r.user_id # call[c].user_id

\* C27: award_user_badge and award_user_achievement are atomic.  Whenever
\* the UserBadge (UserAchievement) rows of a user id become more, the user
\* exists and the user's counter is raised by as much in the same step; a
\* row of a failed call is written neither by the call nor by a later
\* commit on the same session, and a failed call changes no counter.
C27_AwardAtomic ==
  [][/\ \A u \in Users \cup {MissingUser} :
         /\ UserBadgeRowsOf(u)' > UserBadgeRowsOf(u) =>
              /\ u \in Users
              /\ user'[u].user_badges_count - user[u].user_badges_count
                   = UserBadgeRowsOf(u)' - UserBadgeRowsOf(u)
         /\ UserAchievementRowsOf(u)' > UserAchievementRowsOf(u) =>
              /\ u \in Users
              /\ user'[u].user_achievements_count
                     - user[u].user_achievements_count
                   = UserAchievementRowsOf(u)' - UserAchievementRowsOf(u)
     /\ reply'.kind = "Exception" /\ ops_made' # ops_made =>
         /\ user' = user
         /\ user_badges' = user_badges
         /\ user_achievements' = user_achievements]_vars

\* C28: on one service instance, a get_trophy of an id that names no Trophy
\* row, as after a successful delete_trophy, does not return a trophy, also
\* when get_trophy returned that trophy before the delete.
C28_NoStaleTrophy ==
  (reply.op = "get_trophy" /\ reply.missing) => reply.kind # "ok"

\* C29: with BRONZE_THRESHOLD <= SILVER_THRESHOLD <= GOLD_THRESHOLD, a
\* satisfied list that contains "Gold Trophy" also contains "Silver Trophy"
\* and "Bronze Trophy", and one that contains "Silver Trophy" also contains
\* "Bronze Trophy".
C29_TiersMonotone ==
  (/\ thresholds.BRONZE_THRESHOLD <= thresholds.SILVER_THRESHOLD
   /\ thresholds.SILVER_THRESHOLD <= thresholds.GOLD_THRESHOLD
   /\ rule_probe.applied) =>
    /\ InSeq("Gold Trophy", rule_probe.satisfied) =>
         /\ InSeq("Silver Trophy", rule_probe.satisfied)
         /\ InSeq("Bronze Trophy", rule_probe.satisfied)
    /\ InSeq("Silver Trophy", rule_probe.satisfied) =>
         InSeq("Bronze Trophy", rule_probe.satisfied)

C29_Witness ==
  /\ rule_probe.applied
  /\ InSeq("Gold Trophy", rule_probe.satisfied)
  /\ InSeq("Silver Trophy", rule_probe.satisfied)
  /\ InSeq("Bronze Trophy", rule_probe.satisfied)

\* The user has some role assignment in the project whose role carries a
\* permission with the name.
CarriedBySomeRole(u, p, n) ==
  \E ra \in role_assignments :
    /\ ra.user_id = u
    /\ ra.project_id = p
    /\ \E rp \in role_permissions :
         rp.role_id = ra.role_id /\ rp.permission_name = n

\* C30: has_permission(user, project, permission) returns true exactly when
\* the user has some role assignment in that project whose role carries a
\* permission with that name, also for a user with several role assignments
\* in the project, and never for a user with none.
C30_PermissionIffSomeRole ==
  [][project_reply' # project_reply =>
       (project_reply'.granted <=>
          CarriedBySomeRole(project_reply'.user_id, project_reply'.project_id,
                            project_reply'.permission_name))]_vars

====
